---- MODULE Spec2Model ----
(***************************************************************************)
(* Event synchronisation and delivery tracking of the FF14 activity bot.   *)
(*                                                                         *)
(* Two operating-system processes share one SQLite store:                  *)
(*   - the periodic process (main.py scan / countdown), modelled step by   *)
(*     step: its awaits on the chat platform are the points where the bot  *)
(*     process can act;                                                    *)
(*   - the bot process (bot_app.py), whose handlers run one at a time.     *)
(* A session (database.py SessionLocal, autoflush=False) keeps added rows  *)
(* pending until commit: queries made inside the session do not see them.  *)
(***************************************************************************)
EXTENDS Integers, Sequences, FiniteSets, TLC

(***************************************************************************)
(* Bounds of the model.                                                    *)
(***************************************************************************)
\* The clock (days) runs from day 1 to day MaxTime.
MaxTime == 2

(***************************************************************************)
(* Values.                                                                 *)
(***************************************************************************)
\* Python None / SQL NULL in an Optional DateTime or Integer column.
NULL == -1

\* Python None in an Optional String column, and the empty string.
NONE == "None"

EMPTY == ""

\* timedelta(days=3): the reminder window of run_scan, in days.
WINDOW == 3

Range(s) == {s[i] : i \in DOMAIN s}

(***************************************************************************)
(* scraper.py                                                              *)
(***************************************************************************)
\* The items of the news API the model draws from: Title, Summary (the time
\* text), OutLink (absent, empty or a link) and HomeImagePath. A lasts one
\* day and ends on day 1, B starts and ends on day 2, C lasts four days,
\* D has no dates.
Items ==
    { [Title |-> "A", Summary |-> "d0~d1", OutLink |-> NONE,  HomeImagePath |-> "p1"],
      [Title |-> "B", Summary |-> "d2~d2", OutLink |-> NONE,  HomeImagePath |-> "p1"],
      [Title |-> "C", Summary |-> "d1~d5", OutLink |-> NONE,  HomeImagePath |-> "p1"],
      [Title |-> "D", Summary |-> "soon",  OutLink |-> NONE,  HomeImagePath |-> "p1"] }

\* The same items as the source serves them at other times: the link of A
\* empty instead of absent, the picture of C replaced.
ItemVariants ==
    { [Title |-> "A", Summary |-> "d0~d1", OutLink |-> EMPTY, HomeImagePath |-> "p1"],
      [Title |-> "C", Summary |-> "d1~d5", OutLink |-> NONE,  HomeImagePath |-> "p2"] }

\* _parse_time_range: the first two dates found in the text, None for a
\* date that is not there.
_parse_time_range(time_text) ==
    CASE time_text = "d0~d1" -> <<0, 1>>
      [] time_text = "d2~d2" -> <<2, 2>>
      [] time_text = "d1~d5" -> <<1, 5>>
      [] OTHER               -> <<NULL, NULL>>

\* One ScrapedEvent of scrape_events (urljoin keeps an empty or absent link).
ScrapedEvent(item) ==
    [ title      |-> item.Title,
      time_text  |-> item.Summary,
      detail_url |-> item.OutLink,
      image_url  |-> item.HomeImagePath,
      start_at   |-> _parse_time_range(item.Summary)[1],
      end_at     |-> _parse_time_range(item.Summary)[2] ]

\* key = (title, time_text, detail_url) of scrape_events.
ScrapeKey(ev) == <<ev.title, ev.time_text, ev.detail_url>>

RECURSIVE scrape_loop(_, _, _)
scrape_loop(items, seen, events) ==
    IF items = <<>> THEN events
    ELSE LET ev == ScrapedEvent(Head(items))
         IN  IF ScrapeKey(ev) \in seen
             THEN scrape_loop(Tail(items), seen, events)
             ELSE scrape_loop(Tail(items), seen \cup {ScrapeKey(ev)},
                              Append(events, ev))

\* scrape_events: the items in page order, an item whose key was seen dropped.
scrape_events(items) == scrape_loop(items, {}, <<>>)

(***************************************************************************)
(* services.py: identity and synchronisation                               *)
(***************************************************************************)
\* _source_id: the digest of "title|time_text|detail_url or ''" (the digest
\* is taken as injective on the three parts).
_source_id(scraped) ==
    << scraped.title, scraped.time_text,
       IF scraped.detail_url = NONE THEN EMPTY ELSE scraped.detail_url >>

\* The Event row sync_events inserts for a record not found. is_active,
\* last_seen_at and removed_at are the columns init_db adds to the events
\* table; created_at is given by the flush; updated_at, which follows every
\* UPDATE of the row, is left out.
NewEvent(scraped, t) ==
    [ source_id    |-> _source_id(scraped),
      title        |-> scraped.title,
      time_text    |-> scraped.time_text,
      detail_url   |-> scraped.detail_url,
      image_url    |-> scraped.image_url,
      start_at     |-> scraped.start_at,
      end_at       |-> scraped.end_at,
      is_active    |-> TRUE,
      last_seen_at |-> t,
      removed_at   |-> NULL,
      created_at   |-> NULL ]

\* The assignments sync_events makes to a row it found.
RefreshEvent(event, scraped, t) ==
    [ event EXCEPT !.title        = scraped.title,
                   !.time_text    = scraped.time_text,
                   !.detail_url   = scraped.detail_url,
                   !.image_url    = scraped.image_url,
                   !.start_at     = scraped.start_at,
                   !.end_at       = scraped.end_at,
                   !.is_active    = TRUE,
                   !.last_seen_at = t,
                   !.removed_at   = NULL ]

\* select(Event).where(Event.source_id == sid).scalar_one_or_none(): the
\* query runs on the stored rows, the first npersist rows of the session's
\* view; rows added in this session are not flushed and so not found.
\* The result is the row's id, 0 for no row.
FindEvent(rows, npersist, sid) ==
    LET hits == {i \in 1..npersist : rows[i].source_id = sid}
    IN  IF hits = {} THEN 0 ELSE CHOOSE i \in hits : TRUE

\* The loop of sync_events over the snapshot. st holds the session's view of
\* the events table (stored rows first, then the rows added by this call),
\* and the created, updated and seen_source_ids lists.
RECURSIVE sync_loop(_, _, _, _)
sync_loop(scraped_events, st, npersist, t) ==
    IF scraped_events = <<>> THEN st
    ELSE LET scraped == Head(scraped_events)
             sid     == _source_id(scraped)
             id      == FindEvent(st.rows, npersist, sid)
             st1     == [st EXCEPT !.seen = Append(@, sid)]
         IN  IF id # 0
             THEN sync_loop(Tail(scraped_events),
                    [st1 EXCEPT !.rows[id] = RefreshEvent(@, scraped, t),
                                !.updated  = Append(@, id)],
                    npersist, t)
             ELSE sync_loop(Tail(scraped_events),
                    [st1 EXCEPT !.rows    = Append(@, NewEvent(scraped, t)),
                                !.created = Append(@, Len(st.rows) + 1)],
                    npersist, t)

\* A sync_events whose UPDATE changes no row.
DeactivateNothing(stored, rows, seen, t) == rows

\* A sync_events whose UPDATE clears is_active and leaves removed_at.
DeactivateFlagOnly(stored, rows, seen, t) ==
    [ i \in DOMAIN rows |->
        IF i <= Len(stored) /\ stored[i].is_active
                            /\ stored[i].source_id \notin Range(seen)
        THEN [rows[i] EXCEPT !.is_active = FALSE]
        ELSE rows[i] ]

\* update(Event).where(is_active, source_id not in seen).values(...): run in
\* the store, on the stored values of the stored rows.
Deactivate(stored, rows, seen, t) ==
    [ i \in DOMAIN rows |->
        IF i <= Len(stored) /\ stored[i].is_active
                            /\ stored[i].source_id \notin Range(seen)
        THEN [rows[i] EXCEPT !.is_active = FALSE, !.removed_at = t]
        ELSE rows[i] ]

\* sync_events(session, scraped_events) on a session opened over the stored
\* events: the session's view afterwards, with created and updated.
sync_events(stored, scraped_events, t) ==
    LET st == sync_loop(scraped_events,
                        [rows |-> stored, created |-> <<>>,
                         updated |-> <<>>, seen |-> <<>>],
                        Len(stored), t)
    IN  [ rows    |-> IF st.seen # <<>>
                      THEN Deactivate(stored, st.rows, st.seen, t)
                      ELSE st.rows,
          created |-> st.created,
          updated |-> st.updated ]

\* session.commit() of the events: the unique constraint on source_id makes
\* the flush raise IntegrityError when two rows carry one source_id.
EventsConflict(rows) ==
    \E i, j \in DOMAIN rows : i # j /\ rows[i].source_id = rows[j].source_id

\* session.commit() of the deliveries: the unique constraint on
\* (event_id, subscriber_id) makes the flush raise IntegrityError.
DeliveriesConflict(rows) ==
    \E i, j \in DOMAIN rows :
        /\ i # j
        /\ rows[i].event_id = rows[j].event_id
        /\ rows[i].subscriber_id = rows[j].subscriber_id

(***************************************************************************)
(* services.py: subscribers, deliveries, queries, ledger                   *)
(***************************************************************************)
\* An ensure_subscriber that leaves the display fields of a row it found.
ensure_subscriber_keeping(stored, chat_id, username) ==
    LET hits == {i \in DOMAIN stored : stored[i].chat_id = chat_id}
    IN  IF hits # {}
        THEN [ rows |-> stored, ref |-> CHOOSE i \in hits : TRUE ]
        ELSE [ rows |-> Append(stored,
                               [chat_id |-> chat_id, username |-> username]),
               ref  |-> Len(stored) + 1 ]

\* ensure_subscriber on a session opened over the stored subscribers: the
\* session's view afterwards and the place of the subscriber in it (a new
\* row is added after the stored ones and has no id before the flush).
ensure_subscriber(stored, chat_id, username) ==
    LET hits == {i \in DOMAIN stored : stored[i].chat_id = chat_id}
    IN  IF hits # {}
        THEN LET i == CHOOSE i \in hits : TRUE
             IN  [ rows |-> [stored EXCEPT ![i].username = username],
                   ref  |-> i ]
        ELSE [ rows |-> Append(stored,
                               [chat_id |-> chat_id, username |-> username]),
               ref  |-> Len(stored) + 1 ]

\* list_subscribers: every stored subscriber, by id.
list_subscribers(stored) == [i \in 1..Len(stored) |-> i]

\* The id of the row at place ref of a session's view: None for a row the
\* session added and has not flushed.
IdOf(ref, npersist) == IF ref <= npersist THEN ref ELSE NULL

\* EventDelivery(event=event, subscriber=sub).
NewDelivery(event_ref, sub_ref) ==
    [ event_id         |-> event_ref,
      subscriber_id    |-> sub_ref,
      first_sent_at    |-> NULL,
      last_sent_at     |-> NULL,
      reminder_sent_at |-> NULL,
      confirmed_at     |-> NULL ]

\* A lookup that finds no delivery.
FindDeliveryNever(stored, event_id, subscriber_id) == 0

\* select(EventDelivery).where(event_id == event.id, subscriber_id == sub.id)
\* on the stored deliveries: the row's id, 0 for no row. A None id matches
\* no stored row.
FindDelivery(stored, event_id, subscriber_id) ==
    LET hits == {i \in DOMAIN stored :
                    /\ event_id # NULL /\ subscriber_id # NULL
                    /\ stored[i].event_id = event_id
                    /\ stored[i].subscriber_id = subscriber_id}
    IN  IF hits = {} THEN 0 ELSE CHOOSE i \in hits : TRUE

\* ensure_deliveries(session, event, subscribers): rows is the session's
\* view of the deliveries (stored rows first, then added ones); the event and
\* the subscribers are places in the session's views, nev and nsub the
\* numbers of stored events and subscribers. The result is the view
\* afterwards and the places of the deliveries returned.
RECURSIVE ensure_loop(_, _, _, _, _, _, _)
ensure_loop(rows, ndel, event_ref, nev, subs, nsub, out) ==
    IF subs = <<>> THEN [rows |-> rows, out |-> out]
    ELSE LET id == FindDelivery(SubSeq(rows, 1, ndel),
                                IdOf(event_ref, nev), IdOf(Head(subs), nsub))
         IN  IF id # 0
             THEN ensure_loop(rows, ndel, event_ref, nev, Tail(subs), nsub,
                              Append(out, id))
             ELSE ensure_loop(Append(rows, NewDelivery(event_ref, Head(subs))),
                              ndel, event_ref, nev, Tail(subs), nsub,
                              Append(out, Len(rows) + 1))

ensure_deliveries(rows, ndel, event_ref, nev, subs, nsub) ==
    ensure_loop(rows, ndel, event_ref, nev, subs, nsub, <<>>)

\* The WHERE clause of list_current_events.
IsCurrent(event, t) ==
    event.is_active /\ (event.end_at = NULL \/ event.end_at >= t)

\* An ORDER BY whose last key is created_at ascending.
OrderBeforeOldestFirst(a, b) ==
    LET na == IF a.start_at = NULL THEN 1 ELSE 0
        nb == IF b.start_at = NULL THEN 1 ELSE 0
    IN  \/ na < nb
        \/ na = nb /\ a.start_at < b.start_at
        \/ na = nb /\ a.start_at = b.start_at /\ a.created_at < b.created_at

\* ORDER BY start_at IS NULL, start_at, created_at DESC: whether row a
\* comes strictly before row b.
OrderBefore(a, b) ==
    LET na == IF a.start_at = NULL THEN 1 ELSE 0
        nb == IF b.start_at = NULL THEN 1 ELSE 0
    IN  \/ na < nb
        \/ na = nb /\ a.start_at < b.start_at
        \/ na = nb /\ a.start_at = b.start_at /\ a.created_at > b.created_at

\* A sequence of the ids in set ids, sorted by the ORDER BY (rows the
\* ORDER BY does not tell apart come in id order).
RECURSIVE SortIds(_, _)
SortIds(events, ids) ==
    IF ids = {} THEN <<>>
    ELSE LET first == CHOOSE i \in ids :
                         \A j \in ids \ {i} :
                            \/ OrderBefore(events[i], events[j])
                            \/ ~OrderBefore(events[j], events[i]) /\ i < j
         IN  <<first>> \o SortIds(events, ids \ {first})

list_current_events(events, t) ==
    SortIds(events, {i \in DOMAIN events : IsCurrent(events[i], t)})

\* A WHERE clause without the deadline.
ReminderDueNoDeadline(event, delivery, t, within_days, exclude_source_ids) ==
    /\ event.is_active
    /\ event.end_at # NULL
    /\ event.end_at >= t
    /\ delivery.confirmed_at = NULL
    /\ delivery.reminder_sent_at = NULL
    /\ (exclude_source_ids # {} => event.source_id \notin exclude_source_ids)

\* The WHERE clause of pending_reminders on a delivery joined to its event.
ReminderDue(event, delivery, t, within_days, exclude_source_ids) ==
    /\ event.is_active
    /\ event.end_at # NULL
    /\ event.end_at <= t + within_days
    /\ event.end_at >= t
    /\ delivery.confirmed_at = NULL
    /\ delivery.reminder_sent_at = NULL
    /\ (exclude_source_ids # {} => event.source_id \notin exclude_source_ids)

\* A set of ids as a sequence in id order.
RECURSIVE InIdOrder(_)
InIdOrder(ids) ==
    IF ids = {} THEN <<>>
    ELSE LET least == CHOOSE i \in ids : \A j \in ids : i <= j
         IN  <<least>> \o InIdOrder(ids \ {least})

\* pending_reminders: the ids of the stored deliveries the query returns.
pending_reminders(events, deliveries, t, within_days, exclude_source_ids) ==
    InIdOrder({d \in DOMAIN deliveries :
                 ReminderDue(events[deliveries[d].event_id], deliveries[d], t,
                             within_days, exclude_source_ids)})

\* A mark_sent that sets first_sent_at on every call.
mark_sent_overwriting(delivery, when, reminder, t) ==
    LET w  == IF when # NULL THEN when ELSE t
        d2 == [delivery EXCEPT !.first_sent_at = w, !.last_sent_at = w]
    IN  IF reminder THEN [d2 EXCEPT !.reminder_sent_at = w] ELSE d2

\* A mark_sent whose reminder call sets reminder_sent_at and nothing else.
mark_sent_reminder_only(delivery, when, reminder, t) ==
    LET w  == IF when # NULL THEN when ELSE t
        d1 == IF delivery.first_sent_at = NULL
              THEN [delivery EXCEPT !.first_sent_at = w]
              ELSE delivery
        d2 == [d1 EXCEPT !.last_sent_at = w]
    IN  IF reminder THEN [delivery EXCEPT !.reminder_sent_at = w] ELSE d2

\* mark_sent(delivery, when, reminder); when = None stands for no argument.
mark_sent(delivery, when, reminder, t) ==
    LET w  == IF when # NULL THEN when ELSE t
        d1 == IF delivery.first_sent_at = NULL
              THEN [delivery EXCEPT !.first_sent_at = w]
              ELSE delivery
        d2 == [d1 EXCEPT !.last_sent_at = w]
    IN  IF reminder THEN [d2 EXCEPT !.reminder_sent_at = w] ELSE d2

\* mark_confirmed(delivery, when).
mark_confirmed(delivery, when, t) ==
    [delivery EXCEPT !.confirmed_at = IF when # NULL THEN when ELSE t]

(***************************************************************************)
(* notifier.py                                                             *)
(***************************************************************************)
\* EventDelivery.is_confirmed.
is_confirmed(delivery) == delivery.confirmed_at # NULL

\* _build_keyboard: the callback payload of the button ("confirm:<id>", the
\* id being None for an event not flushed), NoButton for no keyboard.
NoButton == -2

_build_keyboard(event_id, confirmed) ==
    IF confirmed THEN NoButton ELSE event_id

(***************************************************************************)
(* State                                                                   *)
(***************************************************************************)
VARIABLES
    now,          \* _utcnow(), in days
    events,       \* table events: the row with id i is events[i]
    subscribers,  \* table subscribers
    deliveries,   \* table event_deliveries
    pc,           \* where the periodic process is
    sess,         \* the session of the periodic process
    buttons,      \* <<chat_id, payload, n>>: the confirm buttons on screen
    outbox,       \* the messages the last step handed to the chat platform
    requested,    \* <<source_id, chat_id>> ensure_deliveries was called for:
                  \* ever, and in a transaction that committed (kept)
    cycleNew,     \* pairs notified of a new event in the running scan cycle
    offered       \* the items the source serves during the run

vars == << now, events, subscribers, deliveries, pc, sess, buttons, outbox,
           requested, cycleNew, offered >>

\* chat ids and display names of the users that talk to the bot: every chat
\* sends /start, the chats in Active also send /list and /incomplete and
\* press confirm buttons, the others only receive.
Chats == {101, 102}

Active == {101}

Usernames == {"u1"}

\* --within-days of the countdown command.
WithinDays == {1, WINDOW}

\* The pages the source may serve: up to two of the items.
PagesOf(S) == {<<>>} \cup {<<a>> : a \in S} \cup {<<a, b>> : a, b \in S}

\* A run with users follows one activity: the source serves its item.
Offers == { {i} : i \in Items }

\* A run of the scan alone follows the activities with an end date.
SyncOffer == {i \in Items \cup ItemVariants : i.Summary # "soon"}

NoSession ==
    [ scraped |-> <<>>, rows |-> <<>>, nev |-> 0, created |-> <<>>,
      updated |-> <<>>, suppressed |-> {}, todo |-> <<>>, dels |-> <<>>,
      ndel |-> 0, asked |-> {}, queue |-> <<>>, loaded |-> <<>>,
      countdown |-> FALSE, within |-> WINDOW, exclude |-> {},
      in_scan |-> FALSE ]

InitStore ==
    /\ now = 1
    /\ events = <<>>
    /\ subscribers = <<>>
    /\ deliveries = <<>>
    /\ pc = "idle"
    /\ sess = NoSession
    /\ buttons = {}
    /\ outbox = {}
    /\ requested = [ever |-> {}, kept |-> {}]
    /\ cycleNew = {}

Init == InitStore /\ offered \in Offers

\* A message handed to the chat platform; confirmed tells whether the stored
\* delivery was confirmed when it was sent, after_new whether the pair was
\* notified of the event as new earlier in the same scan cycle.
Message(kind, chat_id, event, button, confirmed, after_new) ==
    [ kind |-> kind, chat_id |-> chat_id, source_id |-> event.source_id,
      button |-> button, confirmed |-> confirmed, after_new |-> after_new ]

\* The confirm buttons on screen after the messages msgs (of distinct
\* events) are sent: for a chat and a payload the model keeps the first
\* button and one more, whatever the number of messages.
ButtonsAfter(shown, msgs) ==
    shown \cup
    { <<m.chat_id, m.button,
        IF <<m.chat_id, m.button, 1>> \in shown THEN 2 ELSE 1>> :
      m \in {x \in msgs : x.button # NoButton} }

(***************************************************************************)
(* main.py: run_scan                                                       *)
(***************************************************************************)
\* A run_scan that suppresses no reminder.
SuppressedNever(event) == FALSE

\* The test of run_scan for an event whose immediate reminder is suppressed.
Suppressed(event) ==
    /\ event.start_at # NULL /\ event.end_at # NULL
    /\ ~(event.end_at <= event.start_at)
    /\ event.end_at - event.start_at <= WINDOW

\* ensure_deliveries for the next created event: its deliveries become the
\* send queue.
NextEvent(s) ==
    LET r == ensure_deliveries(s.dels, s.ndel, Head(s.todo), s.nev,
                               list_subscribers(subscribers), Len(subscribers))
    IN  [s EXCEPT !.dels = r.rows, !.queue = r.out, !.todo = Tail(@),
                  !.asked = @ \cup
                     {<<s.rows[Head(s.todo)].source_id, subscribers[i].chat_id>> :
                        i \in DOMAIN subscribers}]

\* run_scan up to its first await: scrape, sync_events, the suppressed set,
\* list_subscribers, ensure_deliveries for the first created event.
ScanBegin(items) ==
    /\ pc = "idle"
    /\ LET r  == sync_events(events, scrape_events(items), now)
           s0 == [NoSession EXCEPT
                    !.scraped = scrape_events(items),
                    !.rows = r.rows, !.nev = Len(events),
                    !.created = r.created, !.updated = r.updated,
                    !.suppressed = {r.rows[c].source_id :
                                      c \in {x \in Range(r.created) :
                                                Suppressed(r.rows[x])}},
                    !.dels = deliveries, !.ndel = Len(deliveries),
                    !.in_scan = TRUE]
       IN  IF r.created = <<>> \/ subscribers = <<>>
           THEN /\ pc' = "scan_commit"
                /\ sess' = s0
                /\ requested' = requested
           ELSE LET s1 == NextEvent([s0 EXCEPT !.todo = r.created,
                                               !.countdown = TRUE])
                IN  /\ pc' = "scan_send"
                    /\ sess' = s1
                    /\ requested' = [requested EXCEPT !.ever = @ \cup s1.asked]
    /\ outbox' = {}
    /\ cycleNew' = {}
    /\ UNCHANGED <<now, events, subscribers, deliveries, buttons, offered>>

\* The transaction of the periodic process as a per-item commit: what the
\* running countdown has marked is written when it is rolled back.
RollbackKeepingSent ==
    /\ pc' = "idle"
    /\ sess' = NoSession
    /\ cycleNew' = {}
    /\ outbox' = {}
    /\ deliveries' = IF pc = "cd_send"
                     THEN [d \in DOMAIN deliveries |->
                             IF d \in DOMAIN sess.dels THEN sess.dels[d]
                             ELSE deliveries[d]]
                     ELSE deliveries
    /\ UNCHANGED <<now, events, subscribers, buttons, requested, offered>>

\* The transaction of the periodic process is rolled back: an exception left
\* session_scope, or the process was stopped.
Rollback ==
    /\ pc' = "idle"
    /\ sess' = NoSession
    /\ cycleNew' = {}
    /\ outbox' = {}
    /\ UNCHANGED <<now, events, subscribers, deliveries, buttons, requested, offered>>

\* One send of the new-event loop of run_scan succeeds.
ScanSendOk ==
    /\ pc = "scan_send"
    /\ LET ref   == Head(sess.queue)
           d     == sess.dels[ref]
           event == sess.rows[d.event_id]
           chat  == subscribers[d.subscriber_id].chat_id
           msg   == Message("new", chat, event,
                            _build_keyboard(IdOf(d.event_id, sess.nev),
                                            is_confirmed(d)),
                            FALSE, FALSE)
           s1    == [sess EXCEPT !.dels[ref] = mark_sent(d, NULL, FALSE, now),
                                 !.queue = Tail(@)]
       IN  /\ outbox' = {msg}
           /\ buttons' = ButtonsAfter(buttons, {msg})
           /\ cycleNew' = cycleNew \cup {<<event.source_id, chat>>}
           /\ IF s1.queue # <<>>
              THEN /\ sess' = s1 /\ pc' = pc /\ requested' = requested
              ELSE IF s1.todo # <<>>
              THEN LET s2 == NextEvent(s1)
                   IN  /\ sess' = s2 /\ pc' = pc
                       /\ requested' = [requested EXCEPT !.ever = @ \cup s2.asked]
              ELSE /\ sess' = s1 /\ pc' = "scan_commit"
                   /\ requested' = requested
    /\ UNCHANGED <<now, events, subscribers, deliveries, offered>>

\* One send of run_scan raises: nothing catches it, session_scope rolls back.
ScanSendFail ==
    /\ pc = "scan_send"
    /\ Rollback

\* The flush gives each new event its created_at (default=func.now()).
Flushed(rows, nev, t) ==
    [i \in DOMAIN rows |->
        IF i > nev THEN [rows[i] EXCEPT !.created_at = t] ELSE rows[i]]

\* session_scope leaves the with block of run_scan: commit, and
\* run_countdown(3, sorted(suppressed)) unless run_scan returned early.
ScanCommit ==
    /\ pc = "scan_commit"
    /\ IF EventsConflict(sess.rows) \/ DeliveriesConflict(sess.dels)
       THEN Rollback
       ELSE /\ events' = Flushed(sess.rows, sess.nev, now)
            /\ deliveries' = sess.dels
            /\ requested' = [requested EXCEPT !.kept = @ \cup sess.asked]
            /\ outbox' = {}
            /\ IF sess.countdown
               THEN /\ pc' = "cd_begin"
                    /\ sess' = [NoSession EXCEPT !.within = WINDOW,
                                                 !.exclude = sess.suppressed,
                                                 !.in_scan = TRUE]
                    /\ cycleNew' = cycleNew
               ELSE /\ pc' = "idle"
                    /\ sess' = NoSession
                    /\ cycleNew' = {}
            /\ UNCHANGED <<now, subscribers, buttons, offered>>

(***************************************************************************)
(* main.py: run_countdown                                                  *)
(***************************************************************************)
\* run_countdown up to its first await: the pending_reminders query.
Countdown(within_days, exclude_source_ids, in_scan) ==
    LET q == pending_reminders(events, deliveries, now, within_days,
                               exclude_source_ids)
    IN  /\ IF q = <<>>
           THEN /\ pc' = "idle" /\ sess' = NoSession /\ cycleNew' = {}
           ELSE /\ pc' = "cd_send"
                /\ sess' = [NoSession EXCEPT
                              !.queue = q,
                              !.loaded = [d \in Range(q) |-> deliveries[d]],
                              !.dels = [d \in Range(q) |-> deliveries[d]],
                              !.within = within_days,
                              !.exclude = exclude_source_ids,
                              !.in_scan = in_scan]
                /\ cycleNew' = cycleNew
        /\ outbox' = {}
        /\ UNCHANGED <<now, events, subscribers, deliveries, buttons, requested, offered>>

\* main.py countdown --within-days N.
CountdownCommand(within_days) ==
    /\ pc = "idle"
    /\ Countdown(within_days, {}, FALSE)

\* The run_countdown call that ends run_scan.
CountdownAfterScan ==
    /\ pc = "cd_begin"
    /\ Countdown(sess.within, sess.exclude, TRUE)

\* The flush of the countdown session: UPDATE, for each delivery it sent, of
\* the columns whose value changed in memory.
FlushColumn(storedv, loadedv, memv) == IF memv # loadedv THEN memv ELSE storedv

FlushDeliveries(stored, loaded, mem) ==
    [d \in DOMAIN stored |->
        IF d \in DOMAIN mem
        THEN [stored[d] EXCEPT
                !.first_sent_at = FlushColumn(@, loaded[d].first_sent_at,
                                              mem[d].first_sent_at),
                !.last_sent_at = FlushColumn(@, loaded[d].last_sent_at,
                                             mem[d].last_sent_at),
                !.reminder_sent_at = FlushColumn(@, loaded[d].reminder_sent_at,
                                                 mem[d].reminder_sent_at),
                !.confirmed_at = FlushColumn(@, loaded[d].confirmed_at,
                                             mem[d].confirmed_at)]
        ELSE stored[d]]

\* One send of the reminder loop succeeds; after the last one the session
\* commits.
CountdownSendOk ==
    /\ pc = "cd_send"
    /\ LET d     == Head(sess.queue)
           m     == sess.dels[d]
           event == events[m.event_id]
           chat  == subscribers[m.subscriber_id].chat_id
           msg   == Message("reminder", chat, event,
                            _build_keyboard(m.event_id, is_confirmed(m)),
                            is_confirmed(deliveries[d]),
                            sess.in_scan /\ <<event.source_id, chat>> \in cycleNew)
           s1    == [sess EXCEPT !.dels[d] = mark_sent(m, NULL, TRUE, now),
                                 !.queue = Tail(@)]
       IN  /\ outbox' = {msg}
           /\ buttons' = ButtonsAfter(buttons, {msg})
           /\ IF s1.queue # <<>>
              THEN /\ sess' = s1 /\ pc' = pc /\ deliveries' = deliveries
                   /\ cycleNew' = cycleNew
              ELSE /\ sess' = NoSession /\ pc' = "idle"
                   /\ deliveries' = FlushDeliveries(deliveries, s1.loaded, s1.dels)
                   /\ cycleNew' = {}
    /\ UNCHANGED <<now, events, subscribers, requested, offered>>

\* One send of run_countdown raises: session_scope rolls back.
CountdownSendFail ==
    /\ pc = "cd_send"
    /\ Rollback

\* The periodic process is stopped between two awaits.
Interrupt ==
    /\ pc \in {"scan_send", "cd_begin", "cd_send"}
    /\ Rollback

\* Time passes.
Tick ==
    /\ now < MaxTime
    /\ now' = now + 1
    /\ outbox' = {}
    /\ UNCHANGED <<events, subscribers, deliveries, pc, sess, buttons,
                   requested, cycleNew, offered>>

(***************************************************************************)
(* bot_app.py                                                              *)
(***************************************************************************)
\* The SQLite store admits one writer: from the bulk UPDATE of sync_events
\* to the end of its transaction run_scan holds the write lock, and a handler
\* of the bot cannot write before it is released.
StoreFree == pc \notin {"scan_send", "scan_commit"}

\* for event in events: ensure_deliveries(session, event, [subscriber]).
RECURSIVE ensure_each(_, _, _, _, _)
ensure_each(rows, ndel, event_ids, sub_ref, out) ==
    IF event_ids = <<>> THEN [rows |-> rows, out |-> out]
    ELSE LET r == ensure_deliveries(rows, ndel, Head(event_ids), Len(events),
                                    <<sub_ref>>, Len(subscribers))
         IN  ensure_each(r.rows, ndel, Tail(event_ids), sub_ref, out \o r.out)

\* The part the three commands share: ensure_subscriber, list_current_events
\* and the deliveries of the subscriber for the current events.
Subscribe(chat_id, username) ==
    LET s == ensure_subscriber(subscribers, chat_id, username)
        r == ensure_each(deliveries, Len(deliveries),
                         list_current_events(events, now), s.ref, <<>>)
    IN  [ subscribers |-> s.rows, deliveries |-> r.rows, out |-> r.out ]

RequestedFor(chat_id) ==
    {<<events[i].source_id, chat_id>> : i \in Range(list_current_events(events, now))}

\* The record of the requests of a handler whose transaction committed.
Kept(chat_id) ==
    [ ever |-> requested.ever \cup RequestedFor(chat_id),
      kept |-> requested.kept \cup RequestedFor(chat_id) ]

\* The commit of a handler raises IntegrityError: session_scope rolls back
\* and nothing is sent.
Refused(chat_id) ==
    /\ requested' = [requested EXCEPT !.ever = @ \cup RequestedFor(chat_id)]
    /\ outbox' = {}
    /\ UNCHANGED <<subscribers, deliveries, buttons>>

\* handle_start.
HandleStart(chat_id, username) ==
    /\ StoreFree
    /\ LET r == Subscribe(chat_id, username)
       IN  IF DeliveriesConflict(r.deliveries)
           THEN Refused(chat_id)
           ELSE /\ subscribers' = r.subscribers
                /\ deliveries' = r.deliveries
                /\ requested' = Kept(chat_id)
                /\ outbox' = {}
                /\ buttons' = buttons
    /\ UNCHANGED <<now, events, pc, sess, cycleNew, offered>>

\* The send loop of handle_list and handle_incomplete over the deliveries
\* todo: a send that raises is logged and skipped, a send that succeeds
\* marks the delivery sent. failed are the deliveries whose send raises.
Resend(kind, rows, todo, failed, chat_id) ==
    [ deliveries |->
        [d \in DOMAIN rows |->
            IF d \in todo \ failed
            THEN mark_sent(rows[d], NULL, FALSE, now) ELSE rows[d]],
      msgs |->
        { Message(kind, chat_id, events[rows[d].event_id],
                  _build_keyboard(rows[d].event_id, is_confirmed(rows[d])),
                  is_confirmed(rows[d]), FALSE) : d \in todo \ failed } ]

\* handle_list.
HandleList(chat_id, username) ==
    /\ StoreFree
    /\ LET r == Subscribe(chat_id, username)
       IN  IF DeliveriesConflict(r.deliveries)
           THEN Refused(chat_id)
           ELSE \E failed \in SUBSET Range(r.out) :
                  LET x == Resend("list", r.deliveries, Range(r.out), failed,
                                  chat_id)
                  IN  /\ subscribers' = r.subscribers
                      /\ deliveries' = x.deliveries
                      /\ outbox' = x.msgs
                      /\ buttons' = ButtonsAfter(buttons, x.msgs)
                      /\ requested' = Kept(chat_id)
    /\ UNCHANGED <<now, events, pc, sess, cycleNew, offered>>

\* handle_incomplete.
HandleIncomplete(chat_id, username) ==
    /\ StoreFree
    /\ LET r    == Subscribe(chat_id, username)
           todo == {d \in Range(r.out) : ~is_confirmed(r.deliveries[d])}
       IN  IF DeliveriesConflict(r.deliveries)
           THEN Refused(chat_id)
           ELSE \E failed \in SUBSET todo :
                  LET x == Resend("incomplete", r.deliveries, todo, failed,
                                  chat_id)
                  IN  /\ subscribers' = r.subscribers
                      /\ deliveries' = x.deliveries
                      /\ outbox' = x.msgs
                      /\ buttons' = ButtonsAfter(buttons, x.msgs)
                      /\ requested' = Kept(chat_id)
    /\ UNCHANGED <<now, events, pc, sess, cycleNew, offered>>

\* select(Subscriber).where(chat_id == ...).scalar_one_or_none(): 0 for none.
FindSubscriber(stored, chat_id) ==
    LET hits == {i \in DOMAIN stored : stored[i].chat_id = chat_id}
    IN  IF hits = {} THEN 0 ELSE CHOOSE i \in hits : TRUE

\* A handle_confirm that looks the delivery up by the event alone.
ConfirmForEveryone(chat_id, payload) ==
    [ d \in DOMAIN deliveries |->
        IF payload # NULL /\ deliveries[d].event_id = payload
        THEN mark_confirmed(deliveries[d], NULL, now)
        ELSE deliveries[d] ]

\* The store after handle_confirm for the callback "confirm:<payload>".
Confirm(chat_id, payload) ==
    LET sub == FindSubscriber(subscribers, chat_id)
        d   == IF sub = 0 \/ payload = NULL THEN 0
               ELSE FindDelivery(deliveries, payload, sub)
    IN  IF d = 0 THEN deliveries
        ELSE [deliveries EXCEPT ![d] = mark_confirmed(@, NULL, now)]

\* handle_confirm: the user presses a confirm button the bot sent; on every
\* path the handler edits the message, which takes the button off it.
HandleConfirm(chat_id, payload) ==
    /\ StoreFree
    /\ <<chat_id, payload, 1>> \in buttons
    /\ deliveries' = Confirm(chat_id, payload)
    /\ buttons' = IF <<chat_id, payload, 2>> \in buttons
                  THEN buttons \ {<<chat_id, payload, 2>>}
                  ELSE buttons \ {<<chat_id, payload, 1>>}
    /\ outbox' = {}
    /\ UNCHANGED <<now, events, subscribers, pc, sess, requested, cycleNew,
                   offered>>

\* handle_confirm when the edit of the message raises (the platform refuses
\* it, or the network fails): the button stays on the message. Where a
\* delivery was found the edit comes after the commit of session_scope, so
\* the handler ends with the exception and the confirmation stored; on the
\* other paths nothing was written.
HandleConfirmEditFails(chat_id, payload) ==
    /\ StoreFree
    /\ <<chat_id, payload, 1>> \in buttons
    /\ deliveries' = Confirm(chat_id, payload)
    /\ outbox' = {}
    /\ UNCHANGED <<now, events, subscribers, pc, sess, buttons, requested,
                   cycleNew, offered>>

(***************************************************************************)
(* The program                                                             *)
(***************************************************************************)
Next ==
    \/ Tick
    \/ \E items \in PagesOf(offered) : ScanBegin(items)
    \/ ScanSendOk
    \/ ScanSendFail
    \/ ScanCommit
    \/ \E w \in WithinDays : CountdownCommand(w)
    \/ CountdownAfterScan
    \/ CountdownSendOk
    \/ CountdownSendFail
    \/ Interrupt
    \/ \E c \in Chats, u \in Usernames : HandleStart(c, u)
    \/ \E c \in Active, u \in Usernames : HandleList(c, u)
    \/ \E c \in Active, u \in Usernames : HandleIncomplete(c, u)
    \/ \E b \in {x \in buttons : x[1] \in Active} : HandleConfirm(b[1], b[2])
    \/ \E b \in {x \in buttons : x[1] \in Active} :
          HandleConfirmEditFails(b[1], b[2])

Spec == Init /\ [][Next]_vars

\* The periodic scan alone, before any user has talked to the bot, over the
\* wider choice of pages.
NextSync ==
    \/ Tick
    \/ \E items \in PagesOf(offered) : ScanBegin(items)
    \/ ScanCommit

InitSync == InitStore /\ offered = SyncOffer

SpecSync == InitSync /\ [][NextSync]_vars

(***************************************************************************)
(* The ledger functions alone: any sequence of mark_sent and mark_confirmed *)
(* calls, with or without the when argument, on the deliveries of a ledger  *)
(* of two fresh rows.                                                       *)
(***************************************************************************)
\* The values of the when argument: None, or a time.
Whens == {NULL} \cup (1..MaxTime)

\* when or _utcnow().
Stamp(when, t) == IF when # NULL THEN when ELSE t

InitLedger ==
    /\ now = 1
    /\ events = <<>>
    /\ subscribers = <<>>
    /\ deliveries = <<NewDelivery(1, 1), NewDelivery(1, 2)>>
    /\ pc = "ledger"
    /\ sess = NoSession
    /\ buttons = {}
    /\ outbox = {}
    /\ requested = [ever |-> {}, kept |-> {}]
    /\ cycleNew = {}
    /\ offered = {}

MarkSentCall(d, when, reminder) ==
    /\ pc = "ledger"
    /\ deliveries' = [deliveries EXCEPT ![d] = mark_sent(@, when, reminder, now)]
    /\ UNCHANGED <<now, events, subscribers, pc, sess, buttons, outbox,
                   requested, cycleNew, offered>>

MarkConfirmedCall(d, when) ==
    /\ pc = "ledger"
    /\ deliveries' = [deliveries EXCEPT ![d] = mark_confirmed(@, when, now)]
    /\ UNCHANGED <<now, events, subscribers, pc, sess, buttons, outbox,
                   requested, cycleNew, offered>>

NextLedger ==
    \/ Tick
    \/ \E d \in DOMAIN deliveries, when \in Whens, reminder \in BOOLEAN :
          MarkSentCall(d, when, reminder)
    \/ \E d \in DOMAIN deliveries, when \in Whens : MarkConfirmedCall(d, when)

SpecLedger == InitLedger /\ [][NextLedger]_vars

(***************************************************************************)
(* Properties of sync_events. They are stated where run_scan has called     *)
(* sync_events on the snapshot sess.scraped and has not committed yet       *)
(* (pc = "scan_commit" under SpecSync): events is the store before the      *)
(* call, sess.rows the events as the session holds them after it.           *)
(***************************************************************************)
Identities(scraped_events) == {_source_id(x) : x \in Range(scraped_events)}

\* The events table once session_scope has left the with block of run_scan.
StoreAfterScan ==
    IF EventsConflict(sess.rows) \/ DeliveriesConflict(sess.dels)
    THEN events
    ELSE Flushed(sess.rows, sess.nev, now)

SameButLastSeen(a, b) ==
    /\ Len(a) = Len(b)
    /\ \A i \in DOMAIN a :
          [a[i] EXCEPT !.last_seen_at = NULL] = [b[i] EXCEPT !.last_seen_at = NULL]

\* C1: idempotent synchronize. For every snapshot S and every store, when
\* the scan that ran sync_events(S) has ended, sync_events(S) run again at
\* once returns an empty created list and leaves the events as the first
\* call left them, lastSeenAt apart.
C1_IdempotentSync ==
    pc = "scan_commit" =>
        LET r2 == sync_events(StoreAfterScan, sess.scraped, now)
        IN  /\ r2.created = <<>>
            /\ SameButLastSeen(r2.rows, StoreAfterScan)

CarriesFields(event, scraped) ==
    /\ event.title = scraped.title
    /\ event.time_text = scraped.time_text
    /\ event.detail_url = scraped.detail_url
    /\ event.image_url = scraped.image_url
    /\ event.start_at = scraped.start_at
    /\ event.end_at = scraped.end_at

\* What C2 says of the call sync_events(S) that took the events from
\* before to after.
DeactivationHolds(before, S, after) ==
    /\ Len(after) >= Len(before)
    /\ \A i \in DOMAIN before :
          before[i].is_active /\ before[i].source_id \notin Identities(S)
              => ~after[i].is_active /\ after[i].removed_at # NULL
    /\ \A i \in DOMAIN after :
          after[i].source_id \in Identities(S)
              => /\ after[i].is_active
                 /\ after[i].removed_at = NULL
                 /\ i \in DOMAIN before => after[i].source_id = before[i].source_id
                 /\ \E x \in Range(S) :
                       _source_id(x) = after[i].source_id /\ CarriesFields(after[i], x)

\* C2 as stated: deactivation correctness for every snapshot, empty or not.
\* After sync_events(S) every Event that was active and whose identity is
\* not in S is inactive with removedAt set, and every Event whose identity
\* is in S is active with removedAt cleared, keeps its identity and row and
\* carries the fields of the snapshot record.
C2_DeactivationAnySnapshot ==
    pc = "scan_commit" => DeactivationHolds(events, sess.scraped, sess.rows)

\* C2 as the code has it: deactivation correctness for every snapshot that
\* is not empty; sync_events of the empty snapshot changes no Event.
C2_Deactivation ==
    pc = "scan_commit" =>
        IF sess.scraped = <<>>
        THEN sess.rows = events
        ELSE DeactivationHolds(events, sess.scraped, sess.rows)

\* A call that deactivated one stored event and refreshed another.
C2_Witness ==
    /\ pc = "scan_commit"
    /\ \E i, j \in DOMAIN events :
          /\ events[i].is_active /\ ~sess.rows[i].is_active
          /\ sess.rows[i].removed_at = now
          /\ j \in Range(sess.updated)
          /\ sess.rows[j].is_active /\ sess.rows[j].image_url # events[j].image_url

\* C3: identity uniqueness. After any sequence of sync_events calls, a
\* snapshot with one identity twice included, the events hold at most one
\* row for a sourceIdentity, in the store and in the session that is about
\* to commit.
C3_IdentityUnique ==
    \A rows \in {events, sess.rows} :
        \A i, j \in DOMAIN rows :
            rows[i].source_id = rows[j].source_id => i = j

(***************************************************************************)
(* Properties of the delivery ledger.                                       *)
(***************************************************************************)
\* The (event identity, chat) pair of a stored delivery.
PairOf(delivery) ==
    << events[delivery.event_id].source_id,
       subscribers[delivery.subscriber_id].chat_id >>

RowsFor(pair) == {i \in DOMAIN deliveries : PairOf(deliveries[i]) = pair}

\* ensure_deliveries called for the pair of a stored row returns that row
\* and adds none.
ReturnsExisting ==
    \A i \in DOMAIN deliveries :
        LET r == ensure_deliveries(deliveries, Len(deliveries),
                                   deliveries[i].event_id, Len(events),
                                   <<deliveries[i].subscriber_id>>,
                                   Len(subscribers))
        IN  r.rows = deliveries /\ r.out = <<i>>

C5_WriteOnceFirstSent ==
    [][ /\ \A d \in DOMAIN deliveries :
              deliveries[d].first_sent_at # NULL
                  => deliveries'[d].first_sent_at = deliveries[d].first_sent_at
        /\ \A d \in DOMAIN deliveries, when \in Whens, reminder \in BOOLEAN :
              MarkSentCall(d, when, reminder)
                  => /\ deliveries'[d].last_sent_at = Stamp(when, now)
                     /\ deliveries[d].first_sent_at = NULL
                           => deliveries'[d].first_sent_at = Stamp(when, now)
      ]_vars

\* A delivery marked sent at two different times, once as a reminder.
C5_Witness ==
    /\ pc = "ledger"
    /\ \E d \in DOMAIN deliveries :
          /\ deliveries[d].first_sent_at # NULL
          /\ deliveries[d].last_sent_at > deliveries[d].first_sent_at
          /\ deliveries[d].reminder_sent_at # NULL

\* C6: write-once reminder-sent. Once reminderSentAt is not null no
\* mark_sent call, reminder or not, changes it.
C6_WriteOnceReminderSent ==
    [][ \A d \in DOMAIN deliveries :
            deliveries[d].reminder_sent_at # NULL
                => deliveries'[d].reminder_sent_at = deliveries[d].reminder_sent_at
      ]_vars

\* C7: set-once confirmation. Once confirmedAt is set, no later confirmation
\* of the subscriber for the event changes it.
C7_ConfirmOnce ==
    [][ \A d \in DOMAIN deliveries :
            deliveries[d].confirmed_at # NULL
                => deliveries'[d].confirmed_at = deliveries[d].confirmed_at
      ]_vars

(***************************************************************************)
(* Properties of the reminders.                                             *)
(***************************************************************************)
SourceIds == {e.source_id : e \in Range(events)}

\* The deliveries C8 describes, for the window within_days and the
\* exclusion set X.
ToRemind(within_days, X) ==
    {d \in DOMAIN deliveries :
        LET e == events[deliveries[d].event_id]
        IN  /\ e.is_active
            /\ e.end_at # NULL
            /\ now <= e.end_at /\ e.end_at <= now + within_days
            /\ deliveries[d].confirmed_at = NULL
            /\ deliveries[d].reminder_sent_at = NULL
            /\ e.source_id \notin X}

C9_ConfirmedIsTerminal ==
    [][ /\ \A d \in DOMAIN deliveries :
              deliveries[d].confirmed_at # NULL
                  => deliveries'[d].confirmed_at # NULL
        /\ \A d \in DOMAIN deliveries', within_days \in WithinDays :
              deliveries'[d].confirmed_at # NULL
                  => d \notin Range(pending_reminders(events', deliveries', now',
                                                     within_days, {}))
        /\ \A m \in outbox' : m.kind = "reminder" => ~m.confirmed
      ]_vars

\* The created events of the running scan whose scheduled duration is at
\* most the reminder window.
ShortCreated ==
    {sess.rows[c].source_id :
        c \in {x \in Range(sess.created) :
                 /\ sess.rows[x].start_at # NULL /\ sess.rows[x].end_at # NULL
                 /\ sess.rows[x].end_at - sess.rows[x].start_at <= WINDOW}}

\* Those among them that end after they start.
ShortCreatedForward ==
    {sess.rows[c].source_id :
        c \in {x \in Range(sess.created) :
                 /\ sess.rows[x].start_at # NULL /\ sess.rows[x].end_at # NULL
                 /\ sess.rows[x].end_at > sess.rows[x].start_at
                 /\ sess.rows[x].end_at - sess.rows[x].start_at <= WINDOW}}

\* The stored event a message is about.
EventOf(m) == CHOOSE e \in Range(events) : e.source_id = m.source_id

SendFails == ScanSendFail \/ CountdownSendFail

\* C11: per-item failure isolation. When a send of a batch of run_scan or
\* run_countdown fails and deliveries are left in the batch, the process stays
\* in the batch and goes on with the next delivery.
C11_FailureIsolation ==
    [][ SendFails /\ (Tail(sess.queue) # <<>> \/ sess.todo # <<>>)
            => /\ pc' = pc
               /\ sess'.queue = Tail(sess.queue)
      ]_vars

\* The stored deliveries of a pair after the step.
SentRowsAfter(pair) ==
    {i \in DOMAIN deliveries' :
        /\ PairOf(deliveries'[i]) = pair
        /\ deliveries'[i].first_sent_at # NULL
        /\ deliveries'[i].last_sent_at # NULL}

\* C12: partial failure commits successes. When a batch of the periodic
\* process ends on a failed send, every delivery whose message went out
\* earlier in the batch is recorded as sent in the store: firstSentAt and
\* lastSentAt are set, and reminderSentAt for a reminder.
C12_PartialFailureCommits ==
    [][ /\ ScanSendFail => \A pair \in cycleNew : SentRowsAfter(pair) # {}
        /\ CountdownSendFail =>
              \A d \in DOMAIN sess.dels :
                  sess.dels[d].reminder_sent_at # NULL
                      => /\ deliveries'[d].first_sent_at # NULL
                         /\ deliveries'[d].reminder_sent_at # NULL
      ]_vars

(***************************************************************************)
(* The periodic process with users who only subscribe: no /list, no          *)
(* /incomplete and no confirmation. Every message is then one of run_scan   *)
(* or run_countdown, each leaves its confirm button on the screen of the    *)
(* chat, and no button is taken away.                                       *)
(***************************************************************************)
NextPeriodic ==
    \/ Tick
    \/ \E items \in PagesOf(offered) : ScanBegin(items)
    \/ ScanSendOk
    \/ ScanSendFail
    \/ ScanCommit
    \/ \E w \in WithinDays : CountdownCommand(w)
    \/ CountdownAfterScan
    \/ CountdownSendOk
    \/ CountdownSendFail
    \/ Interrupt
    \/ \E c \in Chats, u \in Usernames : HandleStart(c, u)

SpecPeriodic == Init /\ [][NextPeriodic]_vars

\* C13: safe restart without duplicates. Across any sequence of runs of the
\* scan and of the countdown, failed sends and shutdowns included, a chat
\* has on its screen at most one new-event notification (button payload of
\* an event not flushed) and at most one reminder (button payload the event
\* id) of the one event the source serves: no button is a second one.
C13_NoDuplicateOnRestart ==
    \A b \in buttons : b[3] = 1

(***************************************************************************)
(* The scan run again and again (cron), every send succeeding, with users   *)
(* who subscribe at any time: the trigger and each step of a run are taken  *)
(* whenever they stay possible.                                             *)
(***************************************************************************)
ScanTrigger == \E items \in PagesOf(offered) : ScanBegin(items)

NextFair ==
    \/ Tick
    \/ ScanTrigger
    \/ ScanSendOk
    \/ ScanCommit
    \/ CountdownAfterScan
    \/ CountdownSendOk
    \/ \E c \in Chats, u \in Usernames : HandleStart(c, u)

SpecFair ==
    /\ Init
    /\ [][NextFair]_vars
    /\ WF_vars(ScanTrigger)
    /\ WF_vars(ScanSendOk)
    /\ WF_vars(ScanCommit)
    /\ WF_vars(CountdownAfterScan)
    /\ WF_vars(CountdownSendOk)

\* The chat has its Subscriber row.
Registered(chat_id) == FindSubscriber(subscribers, chat_id) # 0

\* The store records a first send to the chat.
Notified(chat_id) ==
    \E d \in DOMAIN deliveries :
        /\ deliveries[d].subscriber_id = FindSubscriber(subscribers, chat_id)
        /\ deliveries[d].first_sent_at # NULL

\* The event is active and does not end while the clock runs.
StaysCurrent(event) ==
    event.is_active /\ (event.end_at = NULL \/ event.end_at >= MaxTime)

\* C14: every event reaches every subscriber. Under fair repetition of the
\* scan and successful sends, once the event the source serves is stored,
\* active and not ended and a chat is registered, the delivery of the chat
\* for the event eventually has firstSentAt set, whether the chat registered
\* before or after the event was first scraped.
C14_EveryEventReachesEverySubscriber ==
    \A c \in Chats :
        (Registered(c) /\ \E e \in Range(events) : StaysCurrent(e))
            ~> Notified(c)

\* C15: no confirmation affordance after confirmation. No message goes out
\* with the confirm button for a delivery that is confirmed in the store
\* when the message is sent, whatever trigger sends it and however a
\* confirmation interleaves with a running batch.
C15_NoButtonAfterConfirmation ==
    \A m \in outbox : m.confirmed => m.button = NoButton

(***************************************************************************)
(* Two runs of main.py scan at once (two cron runs that overlap), before    *)
(* any user has subscribed. The run followed step by step has made the      *)
(* SELECTs of sync_events, which take no lock, when the other run goes      *)
(* through its whole scan and commits; the first run then goes on with the  *)
(* rows it loaded.                                                          *)
(***************************************************************************)
\* The source serves two activities.
RaceOffer == {i \in Items : i.Title \in {"B", "C"}}

InitRace == InitStore /\ offered = RaceOffer

\* sync_events up to its bulk UPDATE: the session has loaded the stored rows
\* its SELECTs found.
ScanSelect(items) ==
    /\ pc = "idle"
    /\ pc' = "scan_select"
    /\ sess' = [NoSession EXCEPT !.scraped = scrape_events(items),
                                 !.rows = events, !.nev = Len(events),
                                 !.in_scan = TRUE]
    /\ outbox' = {}
    /\ UNCHANGED <<now, events, subscribers, deliveries, buttons, requested,
                   cycleNew, offered>>

\* The other run: sync_events, the early return of run_scan (no subscriber),
\* the commit of session_scope.
RivalScan(items) ==
    /\ pc = "scan_select"
    /\ LET r == sync_events(events, scrape_events(items), now)
       IN  events' = IF EventsConflict(r.rows) THEN events
                     ELSE Flushed(r.rows, Len(events), now)
    /\ UNCHANGED <<now, subscribers, deliveries, pc, sess, buttons, outbox,
                   requested, cycleNew, offered>>

\* The flush of a loaded Event: UPDATE of the columns whose value changed in
\* memory.
FlushEvent(stored, loaded, mem) ==
    [ stored EXCEPT
        !.title        = FlushColumn(@, loaded.title, mem.title),
        !.time_text    = FlushColumn(@, loaded.time_text, mem.time_text),
        !.detail_url   = FlushColumn(@, loaded.detail_url, mem.detail_url),
        !.image_url    = FlushColumn(@, loaded.image_url, mem.image_url),
        !.start_at     = FlushColumn(@, loaded.start_at, mem.start_at),
        !.end_at       = FlushColumn(@, loaded.end_at, mem.end_at),
        !.is_active    = FlushColumn(@, loaded.is_active, mem.is_active),
        !.last_seen_at = FlushColumn(@, loaded.last_seen_at, mem.last_seen_at),
        !.removed_at   = FlushColumn(@, loaded.removed_at, mem.removed_at) ]

\* The events table as the commit of the first run writes it: the loop of
\* sync_events works on the rows loaded (loaded, the first nev rows of the
\* store at that time), the bulk UPDATE and the flush on the store as it is
\* now, and the rows the loop created are inserted after the stored ones.
RaceStore(stored, loaded, scraped_events, t) ==
    LET nev  == Len(loaded)
        st   == sync_loop(scraped_events,
                          [rows |-> loaded, created |-> <<>>,
                           updated |-> <<>>, seen |-> <<>>],
                          nev, t)
        base == [i \in DOMAIN stored |->
                    IF i <= nev THEN FlushEvent(stored[i], loaded[i], st.rows[i])
                    ELSE stored[i]]
        kept == IF st.seen # <<>> THEN Deactivate(stored, base, st.seen, t)
                ELSE base
        new  == [k \in 1..(Len(st.rows) - nev) |->
                    [st.rows[nev + k] EXCEPT !.created_at = t]]
    IN  kept \o new

\* The first run goes on: the rest of sync_events, the early return, and the
\* commit, whose INSERT raises IntegrityError when the other run has stored
\* an Event of the same source_id; session_scope then rolls back.
ScanFinish ==
    /\ pc = "scan_select"
    /\ LET rows == RaceStore(events, sess.rows, sess.scraped, now)
       IN  events' = IF EventsConflict(rows) THEN events ELSE rows
    /\ pc' = "idle"
    /\ sess' = NoSession
    /\ outbox' = {}
    /\ UNCHANGED <<now, subscribers, deliveries, buttons, requested, cycleNew,
                   offered>>

NextRace ==
    \/ Tick
    \/ \E items \in PagesOf(offered) : ScanSelect(items)
    \/ \E items \in PagesOf(offered) : RivalScan(items)
    \/ ScanFinish

SpecRace == InitRace /\ [][NextRace]_vars

\* C16: concurrent duplicate creation is not fatal. When two runs of the
\* scan interleave and both insert an Event of one sourceIdentity, the run
\* that comes second uses the row of the first and its commit goes through:
\* the commit of a run never meets a constraint violation.
C16_DuplicateCreationNotFatal ==
    pc = "scan_select" =>
        ~EventsConflict(RaceStore(events, sess.rows, sess.scraped, now))

(***************************************************************************)
(* list_current_events alone (main.py list), on stores of up to MaxRows     *)
(* events: each row was inserted by sync_events for one of the activities   *)
(* below, on day 0 or on day 1 (ids follow insertion), and is active or was *)
(* deactivated since.                                                       *)
(***************************************************************************)
MaxRows == 3

\* The activities: those of Items, one more without dates and one more with
\* the dates of C.
ListItems ==
    Items \cup
    { [Title |-> "E", Summary |-> "soon",  OutLink |-> NONE, HomeImagePath |-> "p1"],
      [Title |-> "F", Summary |-> "d1~d5", OutLink |-> NONE, HomeImagePath |-> "p1"] }

\* The row of an activity inserted on day t, deactivated the same day if it
\* is not active.
StoredEvent(item, t, active) ==
    [ NewEvent(ScrapedEvent(item), t) EXCEPT
        !.created_at = t,
        !.is_active  = active,
        !.removed_at = IF active THEN NULL ELSE t ]

InitList ==
    /\ now = 1
    /\ \E n \in 0..MaxRows :
         \E its \in [1..n -> ListItems], days \in [1..n -> {0, 1}],
            act \in [1..n -> BOOLEAN] :
            /\ \A i, j \in 1..n : i < j => its[i] # its[j] /\ days[i] <= days[j]
            /\ events = [i \in 1..n |-> StoredEvent(its[i], days[i], act[i])]
    /\ subscribers = <<>>
    /\ deliveries = <<>>
    /\ pc = "list"
    /\ sess = NoSession
    /\ buttons = {}
    /\ outbox = {}
    /\ requested = [ever |-> {}, kept |-> {}]
    /\ cycleNew = {}
    /\ offered = {}

\* main.py list: the events list_current_events returns, in its order.
RunList ==
    /\ pc \in {"list", "listed"}
    /\ pc' = "listed"
    /\ sess' = [NoSession EXCEPT !.queue = list_current_events(events, now)]
    /\ UNCHANGED <<now, events, subscribers, deliveries, buttons, outbox,
                   requested, cycleNew, offered>>

NextList ==
    \/ Tick
    \/ RunList

SpecList == InitList /\ [][NextList]_vars

\* C17: current-events query. list_current_events returns, each once,
\* exactly the events that are active and whose endAt is null or >= now;
\* in its result no event of unknown startAt precedes one of known startAt,
\* events of known startAt are in ascending startAt order, and events of
\* equal or unknown startAt are in descending createdAt order.
C17_CurrentEventsQuery ==
    LET q == list_current_events(events, now)
    IN  /\ Range(q) = {i \in DOMAIN events :
                          /\ events[i].is_active
                          /\ events[i].end_at = NULL \/ events[i].end_at >= now}
        /\ Len(q) = Cardinality(Range(q))
        /\ \A i, j \in DOMAIN q :
              i < j =>
                LET a == events[q[i]]
                    b == events[q[j]]
                IN  /\ ~(a.start_at = NULL /\ b.start_at # NULL)
                    /\ a.start_at # NULL /\ b.start_at # NULL
                          => a.start_at <= b.start_at
                    /\ a.start_at = b.start_at => a.created_at >= b.created_at

\* main.py list has left out an event that ended and printed two events of
\* one startAt, known or not, the one inserted later first.
C17_Witness ==
    /\ pc = "listed"
    /\ sess.queue = list_current_events(events, now)
    /\ Len(sess.queue) = 2
    /\ \E i \in DOMAIN events :
          events[i].is_active /\ events[i].end_at # NULL /\ events[i].end_at < now
    /\ events[sess.queue[1]].start_at = events[sess.queue[2]].start_at
    /\ events[sess.queue[1]].created_at > events[sess.queue[2]].created_at
    /\ sess.queue[1] > sess.queue[2]

(***************************************************************************)
(* The bot with users who change their display name (a user may have no     *)
(* username), next to a scan whose sends succeed.                           *)
(***************************************************************************)
Names == {"u1", NONE}

\* The source serves activity B.
BotOffer == {i \in Items : i.Title = "B"}

InitBot == InitStore /\ offered = BotOffer

NextBot ==
    \/ Tick
    \/ ScanTrigger
    \/ ScanSendOk
    \/ ScanCommit
    \/ CountdownAfterScan
    \/ CountdownSendOk
    \/ \E c \in Chats, u \in Names : HandleStart(c, u)
    \/ \E c \in Active, u \in Names : HandleList(c, u)
    \/ \E c \in Active, u \in Names : HandleIncomplete(c, u)

SpecBot == InitBot /\ [][NextBot]_vars

\* A step of one of the three commands that call ensure_subscriber.
Registers(chat_id, username) ==
    \/ HandleStart(chat_id, username)
    \/ HandleList(chat_id, username)
    \/ HandleIncomplete(chat_id, username)

Permuted(scraped_events, p) ==
    [i \in DOMAIN scraped_events |-> scraped_events[p[i]]]

\* The events table once a scan whose sync_events returned r has ended.
StoreAfter(stored, r) ==
    IF EventsConflict(r.rows) THEN stored ELSE Flushed(r.rows, Len(stored), now)

\* The identities of the events at the places ids of a session's view.
IdentitiesAt(rows, ids) == {rows[i].source_id : i \in Range(ids)}

\* The time (now = _utcnow()) of the sync_events call of the running scan,
\* as the rows it touched carry it.
SyncTime ==
    IF sess.created # <<>> THEN sess.rows[sess.created[1]].last_seen_at
    ELSE IF sess.updated # <<>> THEN sess.rows[sess.updated[1]].last_seen_at
    ELSE now

\* C19: order independence of synchronize. For every snapshot S, every
\* permutation P of S and every store, the scans that run sync_events(S) and
\* sync_events(P) from that store leave the same Event rows (the same
\* fields and active flags for every identity) and their calls return the
\* same sets of created and updated events.
C19_OrderIndependentSync ==
    pc = "scan_commit" =>
        \A p \in Permutations(DOMAIN sess.scraped) :
            LET r == sync_events(events, Permuted(sess.scraped, p), SyncTime)
            IN  /\ Range(StoreAfter(events, r)) = Range(StoreAfterScan)
                /\ IdentitiesAt(r.rows, r.created)
                      = IdentitiesAt(sess.rows, sess.created)
                /\ IdentitiesAt(r.rows, r.updated)
                      = IdentitiesAt(sess.rows, sess.updated)

\* C20: delivery state machine ordering. A reminder is sent only for a
\* delivery that is NOTIFIED: when run_countdown sends a reminder, the
\* firstSentAt of the delivery is already set in the store, also for a
\* delivery that /start created without a send.
C20_ReminderAfterNotification ==
    [][ CountdownSendOk => deliveries[Head(sess.queue)].first_sent_at # NULL
      ]_vars

(***************************************************************************)
(* Properties of the transactions.                                          *)
(***************************************************************************)
\* The persisted Event Store, Subscriber Registry and Delivery Ledger.
Store == <<events, subscribers, deliveries>>

\* A step of the periodic process.
PeriodicStep == pc' # pc \/ sess' # sess

\* What holds of every step of run_scan and run_countdown: the transaction
\* of run_scan writes nothing before its end and then either nothing or all
\* the events and deliveries of its session; a step of run_countdown writes
\* either nothing or, at the end, the marks of all the reminders it sent.
PeriodicAllOrNothing ==
    /\ pc \in {"scan_send", "scan_commit"} =>
          \/ Store' = Store
          \/ /\ pc = "scan_commit"
             /\ events' = Flushed(sess.rows, sess.nev, now)
             /\ deliveries' = sess.dels
             /\ subscribers' = subscribers
    /\ pc = "cd_send" /\ PeriodicStep =>
          \/ Store' = Store
          \/ /\ pc' = "idle"
             /\ events' = events /\ subscribers' = subscribers
             /\ \A d \in DOMAIN sess.dels :
                   /\ deliveries'[d].reminder_sent_at # NULL
                   /\ deliveries'[d].first_sent_at # NULL

\* handle_confirm raises inside session_scope, or before it: the chat has no
\* Subscriber row, no delivery is found, or the payload is no event id.
ConfirmRaisesInScope(chat_id, payload) ==
    /\ HandleConfirmEditFails(chat_id, payload)
    /\ \/ payload = NULL
       \/ FindSubscriber(subscribers, chat_id) = 0
       \/ FindDelivery(deliveries, payload, FindSubscriber(subscribers, chat_id)) = 0

\* C21 as stated: transactional atomicity. The transactions of run_scan and
\* run_countdown write all or nothing, and an operation that ends with an
\* exception, a handle_confirm included, leaves the three tables as they were.
C21_ExceptionLeavesStore ==
    [][ /\ PeriodicAllOrNothing
        /\ SendFails \/ Interrupt => Store' = Store
        /\ \A b \in buttons :
              HandleConfirmEditFails(b[1], b[2]) => Store' = Store
      ]_vars

\* C21 as the code has it: the same of run_scan and run_countdown, and of a
\* handle_confirm whose exception is raised inside session_scope or before
\* it; a handle_confirm whose exception is raised after session_scope has
\* committed leaves the confirmation stored.
C21_ScopeIsAtomic ==
    [][ /\ PeriodicAllOrNothing
        /\ SendFails \/ Interrupt => Store' = Store
        /\ \A b \in buttons :
              ConfirmRaisesInScope(b[1], b[2]) => Store' = Store
      ]_vars

\* run_countdown has sent the first of two reminders and marked it in its
\* session; the store has neither mark yet.
C21_Witness ==
    /\ pc = "cd_send"
    /\ Len(sess.queue) = 1
    /\ \E d, f \in DOMAIN sess.dels :
          /\ d # f
          /\ sess.dels[d].reminder_sent_at # NULL
          /\ sess.dels[f].reminder_sent_at = NULL
          /\ deliveries[d].reminder_sent_at = NULL
          /\ deliveries[f].reminder_sent_at = NULL

(***************************************************************************)
(* notifier.send_event_to_subscriber alone: any sequence of calls, with     *)
(* sends that return and sends that raise, and of confirmations, on the     *)
(* deliveries of a ledger of two fresh rows. In this specification cycleNew *)
(* holds the deliveries for which a send has returned, and outbox the last  *)
(* call.                                                                    *)
(***************************************************************************)
\* A send_event_to_subscriber that marks the delivery before it sends.
send_event_to_subscriber_marking_first(delivery, is_reminder, sent, t) ==
    mark_sent(delivery, NULL, is_reminder, t)

\* send_event_to_subscriber: the delivery after the call; sent tells whether
\* bot.send_photo / bot.send_message returned or raised. An exception leaves
\* the function before mark_sent.
send_event_to_subscriber(delivery, is_reminder, sent, t) ==
    IF sent THEN mark_sent(delivery, NULL, is_reminder, t) ELSE delivery

InitNotify ==
    /\ now = 1
    /\ events = <<>>
    /\ subscribers = <<>>
    /\ deliveries = <<NewDelivery(1, 1), NewDelivery(1, 2)>>
    /\ pc = "ledger"
    /\ sess = NoSession
    /\ buttons = {}
    /\ outbox = {}
    /\ requested = [ever |-> {}, kept |-> {}]
    /\ cycleNew = {}
    /\ offered = {}

SendCall(d, is_reminder, sent) ==
    /\ pc = "ledger"
    /\ deliveries' = [deliveries EXCEPT
                        ![d] = send_event_to_subscriber(@, is_reminder, sent, now)]
    /\ outbox' = {[delivery |-> d, reminder |-> is_reminder, sent |-> sent]}
    /\ cycleNew' = IF sent THEN cycleNew \cup {d} ELSE cycleNew
    /\ UNCHANGED <<now, events, subscribers, pc, sess, buttons, requested,
                   offered>>

NextNotify ==
    \/ Tick
    \/ \E d \in DOMAIN deliveries, is_reminder \in BOOLEAN, sent \in BOOLEAN :
          SendCall(d, is_reminder, sent)
    \/ \E d \in DOMAIN deliveries : MarkConfirmedCall(d, NULL)

SpecNotify == InitNotify /\ [][NextNotify]_vars

\* C22: ledger updated only on send success. A send_event_to_subscriber
\* whose send raises leaves firstSentAt, lastSentAt, reminderSentAt and
\* confirmedAt of the delivery (and the rest of the ledger) unchanged, one
\* whose send returns marks the delivery sent, and a delivery for which no
\* send has returned has firstSentAt, lastSentAt and reminderSentAt null.
C22_MarkedOnlyOnSuccess ==
    [][ /\ \A d \in DOMAIN deliveries, r \in BOOLEAN :
              /\ SendCall(d, r, FALSE) => deliveries' = deliveries
              /\ SendCall(d, r, TRUE) =>
                    /\ deliveries'[d].last_sent_at = now
                    /\ deliveries'[d].first_sent_at # NULL
                    /\ deliveries'[d].confirmed_at = deliveries[d].confirmed_at
        /\ \A d \in DOMAIN deliveries' :
              d \notin cycleNew' =>
                  /\ deliveries'[d].first_sent_at = NULL
                  /\ deliveries'[d].last_sent_at = NULL
                  /\ deliveries'[d].reminder_sent_at = NULL
      ]_vars

\* On day 2 a send for one delivery has raised, as every send for it before:
\* it has no timestamp. The other delivery was sent on day 1.
C22_Witness ==
    /\ pc = "ledger"
    /\ now = 2
    /\ \E d, f \in DOMAIN deliveries :
          /\ outbox = {[delivery |-> d, reminder |-> FALSE, sent |-> FALSE]}
          /\ d \notin cycleNew
          /\ deliveries[d].first_sent_at = NULL
          /\ f \in cycleNew
          /\ deliveries[f].first_sent_at = 1

\* The rows of an events table agree on is_active and removed_at.
InactiveIffRemoved(rows) ==
    \A i \in DOMAIN rows : ~rows[i].is_active <=> rows[i].removed_at # NULL

\* C23: event lifecycle. In every state reached by sync_events calls an
\* event is inactive exactly when its removed_at is set, in the store and
\* in the rows a running scan is about to commit; no step removes a stored
\* event or changes its identity, so the stored identities only grow.
C23_EventLifecycle ==
    /\ [](/\ InactiveIffRemoved(events)
          /\ pc = "scan_commit" => InactiveIffRemoved(sess.rows))
    /\ [][ /\ Len(events') >= Len(events)
           /\ \A i \in DOMAIN events :
                 events'[i].source_id = events[i].source_id ]_vars

\* A scan about to commit brings one removed event back and removes another.
C23_Witness ==
    /\ pc = "scan_commit"
    /\ \E i, j \in DOMAIN events :
          /\ ~events[i].is_active
          /\ events[i].removed_at # NULL
          /\ sess.rows[i].is_active
          /\ sess.rows[i].removed_at = NULL
          /\ events[j].is_active
          /\ ~sess.rows[j].is_active
          /\ sess.rows[j].removed_at = now

\* The sent fields of a delivery agree: first_sent_at and last_sent_at are
\* null together, and a reminder was sent only to a delivery that was sent.
SentFieldsAgree(delivery) ==
    /\ delivery.first_sent_at = NULL <=> delivery.last_sent_at = NULL
    /\ delivery.reminder_sent_at # NULL => delivery.first_sent_at # NULL

\* first_sent_at is not later than last_sent_at when both are set.
FirstBeforeLast(delivery) ==
    delivery.first_sent_at # NULL /\ delivery.last_sent_at # NULL
        => delivery.first_sent_at <= delivery.last_sent_at

\* mark_sent never changes confirmed_at, and mark_confirmed never changes
\* first_sent_at, last_sent_at or reminder_sent_at.
LedgerFrame ==
    /\ \A d \in DOMAIN deliveries, when \in Whens, reminder \in BOOLEAN :
          MarkSentCall(d, when, reminder)
              => deliveries'[d].confirmed_at = deliveries[d].confirmed_at
    /\ \A d \in DOMAIN deliveries, when \in Whens :
          MarkConfirmedCall(d, when)
              => /\ deliveries'[d].first_sent_at = deliveries[d].first_sent_at
                 /\ deliveries'[d].last_sent_at = deliveries[d].last_sent_at
                 /\ deliveries'[d].reminder_sent_at
                        = deliveries[d].reminder_sent_at

ConfirmRuns(b) ==
    HandleConfirm(b[1], b[2]) \/ HandleConfirmEditFails(b[1], b[2])

\* The deliveries of the pair (subscriber of chat_id, event_id).
DeliveriesOf(chat_id, event_id) ==
    {d \in DOMAIN deliveries :
        /\ event_id # NULL
        /\ FindSubscriber(subscribers, chat_id) # 0
        /\ deliveries[d].subscriber_id = FindSubscriber(subscribers, chat_id)
        /\ deliveries[d].event_id = event_id}

====
